---- MODULE Spec2Model ----
(***************************************************************************)
(* A model of projects/Assignment 1/src/main.cpp: start-up (InitGLFW,      *)
(* InitGLAD), scene construction, the game loop with its FPS history, key  *)
(* watcher polling, behaviour pass, world matrix pass, render group sort,  *)
(* draw pass and GUI pass, and the shutdown.  Entities, materials and      *)
(* shaders are numbered in the order main creates them; a pointer is       *)
(* modelled by an address, 0 being nullptr.                                *)
(*                                                                         *)
(* Spec is main on the scene it builds, with a user who clicks no lighting *)
(* mode button; SpecHud is the game loop with every GUI input; SpecSort    *)
(* and SpecCompare are the sort and the draw pass on arbitrary scenes.     *)
(***************************************************************************)
EXTENDS Integers, Sequences, FiniteSets, TLC

\* ---------------------------------------------------------------- bounds
\* number of trees created by the randomTrees loop (NUM_TREES / 2 = 12 in
\* the source; scaled down, every tree shares materialTreeBig)
NumTrees == 2
\* size of the arbitrary scenes of SpecSort
NumAnyRend == 3
NumAnyMats == 3

\* ------------------------------------------------------ program constants
SkyboxRenderLayer == 100
\* ShaderMaterial::RenderLayer of a material that never sets it
DefaultRenderLayer == 0
Null == 0

\* ------------------------------------------------------------- the scene
\* shaders, in creation order
shader == 1
reflectiveShader == 2
reflective == 3
skybox == 4
NumShaders == 4

\* materials, in creation order
materialGround == 1
materialDunce == 2
materialDuncet == 3
materialSlide == 4
materialSwing == 5
materialTable == 6
materialTreeBig == 7
materialredballoon == 8
materialyellowballoon == 9
material1 == 10
reflectiveMat == 11
skyboxMat == 12
NumMaterials == 12

\* entities, in creation order
objGround == 1
objDunce == 2
objDuncet == 3
objSlide == 4
objRedBalloon == 5
objYellowBalloon == 6
randomTrees == [i \in 1..NumTrees |-> 6 + i]
objSwing == 7 + NumTrees
objTable == 8 + NumTrees
cameraObject == 9 + NumTrees
skyboxObj == 10 + NumTrees
SceneEntities == 1..skyboxObj

Range(s) == {s[i] : i \in DOMAIN s}
Reverse(s) == [i \in 1..Len(s) |-> s[Len(s) + 1 - i]]
Last(s) == s[Len(s)]

\* Material->Shader of every material main creates
SceneShader ==
  [m \in 1..NumMaterials |->
     IF m = material1 THEN reflective
     ELSE IF m = reflectiveMat THEN reflectiveShader
     ELSE IF m = skyboxMat THEN skybox
     ELSE shader]

\* Material->RenderLayer of every material main creates
SceneRenderLayer ==
  [m \in 1..NumMaterials |->
     IF m = skyboxMat THEN SkyboxRenderLayer ELSE DefaultRenderLayer]

\* RendererComponent::Material of the entities that get a RendererComponent
SceneMaterial ==
  [e \in SceneEntities \ {cameraObject} |->
     IF e = objGround THEN materialGround
     ELSE IF e = objDunce THEN materialDunce
     ELSE IF e = objDuncet THEN materialDuncet
     ELSE IF e = objSlide THEN materialSlide
     ELSE IF e = objRedBalloon THEN materialredballoon
     ELSE IF e = objYellowBalloon THEN materialyellowballoon
     ELSE IF e = objSwing THEN materialSwing
     ELSE IF e = objTable THEN materialTable
     ELSE IF e = skyboxObj THEN skyboxMat
     ELSE materialTreeBig]

\* the renderables in creation order
SceneRenderables ==
  <<objGround, objDunce, objDuncet, objSlide, objRedBalloon, objYellowBalloon>>
    \o randomTrees \o <<objSwing, objTable, skyboxObj>>

Behaviour(kind, enabled) == [kind |-> kind, Enabled |-> enabled, Relative |-> FALSE]
\* BehaviourBinding::BindDisabled<T> / BehaviourBinding::Bind<T>
BindDisabled(kind) == Behaviour(kind, FALSE)
Bind(kind) == Behaviour(kind, TRUE)

\* BehaviourBinding::Behaviours of every entity
SceneBehaviours ==
  [e \in SceneEntities |->
     IF e \in {objGround, objDunce, objDuncet, objSlide, objSwing}
       THEN <<BindDisabled("SimpleMoveBehaviour")>>
     ELSE IF e \in {objRedBalloon, objYellowBalloon}
       THEN <<BindDisabled("SimpleMoveBehaviour"), Bind("FollowPathBehaviour")>>
     ELSE IF e = cameraObject THEN <<Bind("CameraControlBehaviour")>>
     ELSE <<>>]

controllables == <<objDunce, objDuncet>>

\* the key watchers, in the order keyToggles holds them
keyToggles == <<"T", "KP_ADD", "KP_SUBTRACT", "Y">>

\* the sizes of controllables the index arithmetic is checked for
MaxControllables == 3
\* float fpsBuffer[128], scaled down
FpsBufferSize == 2
\* the content of a slot of fpsBuffer that was never written
Uninit == -1

\* int lightoff, ambientonly, specularonly, ambientandspecular,
\* ambientspeculartoon, and the uniform each one is uploaded to
ModeFlags == <<"lightoff", "ambientonly", "specularonly", "ambientandspecular",
               "ambientspeculartoon">>
ModeUniforms == <<"u_lightoff", "u_ambient", "u_specular", "u_ambientspecular",
                  "u_ambientspeculartoon">>
NoMode == <<0, 0, 0, 0, 0>>
Buttons == <<"No Lighting", "Ambient only", "specular only", "Ambient and Specular",
             "Ambient, Specular, and Toon Shading">>
\* button -> the values its five SetUniform calls assign and upload
ButtonWrites == << <<1, 0, 0, 0, 0>>,
                   <<0, 1, 0, 0, 0>>,
                   <<0, 0, 1, 0, 0>>,
                   <<0, 0, 0, 1, 0>>,
                   <<0, 0, 0, 0, 1>> >>

ViewIds == {1, 2}

VARIABLES
  pc,            \* position of main
  window,        \* the global GLFWwindow*: Null or 1
  logged,        \* messages written by LOG_ERROR
  exitCode,      \* -1 while running, else the status of the process
  assetsLoaded,  \* TRUE once a shader, texture or mesh has been loaded
  failed,        \* the library calls of start-up that failed
  released,      \* what the shutdown path has released, in order
  group,         \* renderGroup, in the order each() visits it
  Material,      \* entity -> RendererComponent::Material
  RenderLayer,   \* material -> RenderLayer
  Shader,        \* material -> Shader
  matAddr,       \* material -> address held by its shared_ptr
  shAddr,        \* shader -> address held by its shared_ptr
  Behaviours,    \* entity -> BehaviourBinding::Behaviours
  stale,         \* entity -> its Transform changed since its world matrix was computed
  selectedVao,
  ortho,         \* the camera's orthographic mode
  focused,       \* what ImGui::IsAnyWindowFocused returned in this frame
  phaseLog,      \* the phases this frame has run, in order
  watcherPolls,  \* KeyPressWatcher::Poll calls of this frame
  lastToggle,    \* entity -> last write of a key toggle to Enabled in this frame
  everOn,        \* entities whose behaviour a key toggle enabled in this frame
  everOff,       \* entities whose behaviour a key toggle disabled in this frame
  seenEnabled,   \* entity -> Enabled flags as the behaviour pass found them
  updCount,      \* entity -> Update calls of this frame, per behaviour
  wmCount,       \* entity -> UpdateWorldMatrix calls of this frame
  view,          \* this frame's view matrix
  current,       \* the draw pass' tracked shader
  currentMat,    \* the draw pass' tracked material
  drawIx,        \* position of the draw pass in group
  drawLog,       \* RenderVAO calls of this frame: drawn entities
  applyLog,      \* ShaderMaterial::Apply calls of this frame: materials
  bindLog,       \* Shader::Bind calls of this frame: <<layer, shader>>
  setupLog,      \* SetupShaderForFrame calls of this frame: <<layer, shader>>
  boundShader,   \* the most recently bound shader
  appliedMat,    \* the most recently applied material
  uView,         \* shader -> value of its u_View uniform
  selKeys,       \* KP_ADD / KP_SUBTRACT callbacks run in this frame, in order
  oobUse,        \* controllables was indexed outside 0..size-1
  everToggled,   \* a KP_ADD or KP_SUBTRACT callback has run
  modeFlags,     \* the five lighting-mode flags, in declaration order
  uniforms,      \* value last uploaded to the u_* uniform of each flag
  lastButton,    \* the mode button handled last, 0 before any
  frameIx,       \* next slot of the FPS history to write
  fpsBuffer,     \* slot -> age in frames of the sample it holds
  framesRun      \* iterations of the game loop started, counted up to FpsBufferSize

sceneVars == <<group, Material, RenderLayer, Shader, matAddr, shAddr, Behaviours,
               stale, selectedVao, ortho>>
startVars == <<window, logged, exitCode, assetsLoaded, failed, released>>
inputVars == <<focused, watcherPolls, lastToggle, everOn, everOff>>
passVars == <<seenEnabled, updCount, wmCount>>
drawVars == <<view, current, currentMat, drawIx, drawLog, applyLog, bindLog,
              setupLog, boundShader, appliedMat, uView>>
selVars == <<oobUse, everToggled>>
guiVars == <<modeFlags, uniforms, lastButton>>
fpsVars == <<frameIx, fpsBuffer, framesRun>>
vars == <<pc, phaseLog, sceneVars, startVars, inputVars, passVars, drawVars,
          selKeys, selVars, guiVars, fpsVars>>

Entities == DOMAIN stale

Init ==
  /\ pc = "InitGLFW"
  /\ window = Null
  /\ logged = {}
  /\ exitCode = -1
  /\ assetsLoaded = FALSE
  /\ failed = {}
  /\ released = <<>>
  /\ group = <<>>
  /\ Material = <<>>
  /\ RenderLayer = <<>>
  /\ Shader = <<>>
  /\ matAddr = <<>>
  /\ shAddr = <<>>
  /\ Behaviours = <<>>
  /\ stale = <<>>
  /\ selectedVao = 0
  /\ ortho = FALSE
  /\ focused = FALSE
  /\ phaseLog = <<>>
  /\ watcherPolls = 0
  /\ lastToggle = <<>>
  /\ everOn = {}
  /\ everOff = {}
  /\ seenEnabled = <<>>
  /\ updCount = <<>>
  /\ wmCount = <<>>
  /\ view = 1
  /\ current = Null
  /\ currentMat = Null
  /\ drawIx = 1
  /\ drawLog = <<>>
  /\ applyLog = <<>>
  /\ bindLog = <<>>
  /\ setupLog = <<>>
  /\ boundShader = Null
  /\ appliedMat = Null
  /\ uView = <<>>
  /\ selKeys = <<>>
  /\ oobUse = FALSE
  /\ everToggled = FALSE
  /\ modeFlags = <<>>
  /\ uniforms = <<>>
  /\ lastButton = 0
  /\ frameIx = 0
  /\ fpsBuffer = <<>>
  /\ framesRun = 0

\* ------------------------------------------------------------- start-up
\* InitGLFW: only glfwInit's result is tested.  The window glfwCreateWindow
\* returns is used unchecked; glfwSetWindowSizeCallback on a null window is
\* undefined behaviour, which either ends the process abnormally or goes on.
InitGLFW ==
  /\ pc = "InitGLFW"
  /\ \E glfwInitOk \in BOOLEAN, created \in {Null, 1}, survives \in BOOLEAN :
       IF ~glfwInitOk
         THEN /\ logged' = logged \cup {"Failed to initialize GLFW"}
              /\ failed' = failed \cup {"glfwInit"}
              /\ window' = window
              /\ pc' = "exit"
              /\ exitCode' = 1
         ELSE /\ window' = created
              /\ logged' = logged
              /\ failed' = IF created = Null THEN failed \cup {"glfwCreateWindow"} ELSE failed
              /\ IF created = Null /\ ~survives
                   THEN pc' = "crashed" /\ exitCode' = 139
                   ELSE pc' = "InitGLAD" /\ exitCode' = exitCode
  /\ UNCHANGED <<selKeys, selVars, guiVars, fpsVars, assetsLoaded, released,
                 phaseLog, sceneVars, inputVars, passVars, drawVars>>

\* InitGLAD: the loader needs a current context, so it cannot succeed
\* when no window was created.
InitGLAD ==
  /\ pc = "InitGLAD"
  /\ \E loaded \in (IF window = Null THEN {FALSE} ELSE BOOLEAN) :
       IF ~loaded
         THEN /\ logged' = logged \cup {"Failed to initialize Glad"}
              /\ failed' = failed \cup {"gladLoadGLLoader"}
              /\ pc' = "exit"
              /\ exitCode' = 1
         ELSE /\ logged' = logged
              /\ failed' = failed
              /\ pc' = "setup"
              /\ exitCode' = exitCode
  /\ UNCHANGED <<selKeys, selVars, guiVars, fpsVars, window, assetsLoaded,
                 released, phaseLog, sceneVars, inputVars, passVars, drawVars>>

\* the two ways the allocator may order n objects created one after another
Ascending(n) == [i \in 1..n |-> i]
Descending(n) == [i \in 1..n |-> n + 1 - i]

\* main, from the declaration of frameIx to the start of the game loop:
\* shaders, textures, materials, entities, key toggles.
LoadScene ==
  /\ pc = "setup"
  /\ assetsLoaded' = TRUE
  /\ \E g \in {SceneRenderables, Reverse(SceneRenderables)} : group' = g
  /\ Material' = SceneMaterial
  /\ RenderLayer' = SceneRenderLayer
  /\ Shader' = SceneShader
  /\ \E a \in {Ascending(NumMaterials), Descending(NumMaterials)} : matAddr' = a
  /\ \E a \in {Ascending(NumShaders), Descending(NumShaders)} : shAddr' = a
  /\ Behaviours' = SceneBehaviours
  /\ stale' = [e \in SceneEntities |-> TRUE]
  /\ selectedVao' = 0
  /\ ortho' = FALSE
  /\ lastToggle' = [e \in SceneEntities |-> "none"]
  /\ seenEnabled' = [e \in SceneEntities |-> [i \in DOMAIN SceneBehaviours[e] |-> FALSE]]
  /\ updCount' = [e \in SceneEntities |-> [i \in DOMAIN SceneBehaviours[e] |-> 0]]
  /\ wmCount' = [e \in SceneEntities |-> 0]
  /\ uView' = [s \in 1..NumShaders |-> 0]
  /\ oobUse' = FALSE
  /\ everToggled' = FALSE
  /\ modeFlags' = NoMode
  /\ uniforms' = modeFlags'
  /\ lastButton' = 0
  /\ frameIx' = 0
  /\ fpsBuffer' = [i \in 0..(FpsBufferSize - 1) |-> Uninit]
  /\ framesRun' = 0
  /\ pc' = "loop"
  /\ UNCHANGED <<selKeys, window, logged, exitCode, failed, released,
                 phaseLog, focused, watcherPolls, everOn, everOff, view,
                 current, currentMat, drawIx, drawLog, applyLog, bindLog,
                 setupLog, boundShader, appliedMat>>

\* ------------------------------------------------------------ game loop
\* per-frame bookkeeping, cleared when an iteration starts
FrameReset ==
  /\ focused' = FALSE
  /\ selKeys' = <<>>
  /\ watcherPolls' = 0
  /\ lastToggle' = [e \in Entities |-> "none"]
  /\ everOn' = {}
  /\ everOff' = {}
  /\ seenEnabled' = [e \in Entities |-> [i \in DOMAIN Behaviours[e] |-> FALSE]]
  /\ updCount' = [e \in Entities |-> [i \in DOMAIN Behaviours[e] |-> 0]]
  /\ wmCount' = [e \in Entities |-> 0]
  /\ drawLog' = <<>>
  /\ applyLog' = <<>>
  /\ bindLog' = <<>>
  /\ setupLog' = <<>>

\* the index step with > for >= in the wrap test
AdvanceFrameIx_wrapLate(ix) == IF ix + 1 > FpsBufferSize THEN 0 ELSE ix + 1

\* frameIx++; if (frameIx >= 128) frameIx = 0;
AdvanceFrameIx(ix) == IF ix + 1 >= FpsBufferSize THEN 0 ELSE ix + 1

\* a sample one frame later; ages stop counting at FpsBufferSize
Older(age) == IF age = Uninit \/ age >= FpsBufferSize THEN age ELSE age + 1

\* while (!glfwWindowShouldClose(window)) { glfwPollEvents(); timing;
\* fpsBuffer[frameIx] = 1.0f / time.DeltaTime; frameIx++; wrap
BeginFrame ==
  /\ pc = "loop"
  /\ phaseLog' = <<"PollEvents">>
  /\ FrameReset
  /\ fpsBuffer' = [i \in DOMAIN fpsBuffer |->
                     IF i = frameIx THEN 0 ELSE Older(fpsBuffer[i])]
  /\ frameIx' = AdvanceFrameIx(frameIx)
  /\ framesRun' = IF framesRun < FpsBufferSize THEN framesRun + 1 ELSE framesRun
  /\ pc' = "watchers"
  /\ UNCHANGED <<selVars, guiVars, sceneVars, startVars, view, current,
                 currentMat, drawIx, boundShader, appliedMat, uView>>

\* BehaviourBinding::Get<T>(entity): the entity's first behaviour of that kind
Get(behs, kind) ==
  CHOOSE i \in DOMAIN behs :
    /\ behs[i].kind = kind
    /\ \A j \in DOMAIN behs : behs[j].kind = kind => i <= j

SetEnabled(st, e, value) ==
  LET i == Get(st.Behaviours[e], "SimpleMoveBehaviour") IN
  [st EXCEPT !.Behaviours[e][i].Enabled = value,
             !.lastToggle[e] = IF value THEN "on" ELSE "off",
             !.everOn = IF value THEN @ \cup {e} ELSE @,
             !.everOff = IF value THEN @ ELSE @ \cup {e}]

\* the KP_ADD step with > for >= in the wrap test
SelectNext_offByOne(i, n) == IF i + 1 > n THEN 0 ELSE i + 1

\* selectedVao++; if (selectedVao >= controllables.size()) selectedVao = 0;
SelectNext(i, n) == IF i + 1 >= n THEN 0 ELSE i + 1

\* selectedVao--; if (selectedVao < 0) selectedVao = controllables.size() - 1;
SelectPrev(i, n) == IF i - 1 < 0 THEN n - 1 ELSE i - 1

\* controllables[i] is defined for 0 <= i < controllables.size() only
InRange(i) == i \in 0..(Len(controllables) - 1)
At(i) == controllables[i + 1]

\* a selection step that leaves the old controllable enabled
Select_keepsOld(st, sel) ==
  LET moved == [st EXCEPT !.selectedVao = sel, !.everToggled = TRUE]
  IN IF InRange(sel) THEN SetEnabled(moved, At(sel), TRUE)
     ELSE [moved EXCEPT !.oobUse = TRUE]

\* the body shared by the KP_ADD and KP_SUBTRACT callbacks, sel the new index
Select(st, sel) ==
  LET off == SetEnabled(st, At(st.selectedVao), FALSE)
      moved == [off EXCEPT !.selectedVao = sel, !.everToggled = TRUE]
  IN IF InRange(sel) THEN SetEnabled(moved, At(sel), TRUE)
     ELSE [moved EXCEPT !.oobUse = TRUE]

\* the callback of each key watcher; st holds what the callbacks touch.  An
\* index past the end of controllables is recorded in oobUse.
OnPressed(key, st) ==
  LET ran == [st EXCEPT !.selKeys = Append(@, key)] IN
  IF key = "T" THEN [st EXCEPT !.ortho = ~@]
  ELSE IF ~InRange(st.selectedVao) THEN [st EXCEPT !.oobUse = TRUE]
  ELSE IF key = "KP_ADD" THEN
    Select(ran, SelectNext(st.selectedVao, Len(controllables)))
  ELSE IF key = "KP_SUBTRACT" THEN
    Select(ran, SelectPrev(st.selectedVao, Len(controllables)))
  ELSE
    LET e == At(st.selectedVao)
        i == Get(st.Behaviours[e], "SimpleMoveBehaviour")
    IN [st EXCEPT !.Behaviours[e][i].Relative = ~@]

\* for (const KeyPressWatcher& watcher : keyToggles) watcher.Poll(window);
\* fired is the set of watchers whose Poll finds its key event
RECURSIVE PollFrom(_, _, _)
PollFrom(i, fired, st) ==
  IF i > Len(keyToggles) THEN st
  ELSE PollFrom(i + 1, fired,
                IF keyToggles[i] \in fired THEN OnPressed(keyToggles[i], st) ELSE st)

\* PollKeyWatchers without the test of IsAnyWindowFocused
PollKeyWatchers_ignoresFocus ==
  /\ pc = "watchers"
  /\ \E isFocused \in BOOLEAN, fired \in SUBSET Range(keyToggles) :
       LET st == [Behaviours |-> Behaviours, selectedVao |-> selectedVao,
                  ortho |-> ortho, lastToggle |-> lastToggle,
                  everOn |-> everOn, everOff |-> everOff,
                  selKeys |-> selKeys, oobUse |-> oobUse,
                  everToggled |-> everToggled]
           res == PollFrom(1, fired, st)
       IN /\ focused' = isFocused
          /\ watcherPolls' = IF isFocused THEN watcherPolls
                             ELSE watcherPolls + Len(keyToggles)
          /\ phaseLog' = IF isFocused THEN phaseLog
                         ELSE Append(phaseLog, "PollKeyWatchers")
          /\ Behaviours' = res.Behaviours
          /\ selectedVao' = res.selectedVao
          /\ ortho' = res.ortho
          /\ lastToggle' = res.lastToggle
          /\ everOn' = res.everOn
          /\ everOff' = res.everOff
          /\ selKeys' = res.selKeys
          /\ oobUse' = res.oobUse
          /\ everToggled' = res.everToggled
  /\ pc' = "behaviours"
  /\ UNCHANGED <<guiVars, fpsVars, group, Material, RenderLayer, Shader,
                 matAddr, shAddr, stale, startVars, passVars, drawVars>>

\* if (!ImGui::IsAnyWindowFocused()) { poll every key watcher }
PollKeyWatchers ==
  /\ pc = "watchers"
  /\ \E isFocused \in BOOLEAN, fired \in SUBSET Range(keyToggles) :
       LET st == [Behaviours |-> Behaviours, selectedVao |-> selectedVao,
                  ortho |-> ortho, lastToggle |-> lastToggle,
                  everOn |-> everOn, everOff |-> everOff,
                  selKeys |-> selKeys, oobUse |-> oobUse,
                  everToggled |-> everToggled]
           res == IF isFocused THEN st ELSE PollFrom(1, fired, st)
       IN /\ focused' = isFocused
          /\ watcherPolls' = IF isFocused THEN watcherPolls
                             ELSE watcherPolls + Len(keyToggles)
          /\ phaseLog' = IF isFocused THEN phaseLog
                         ELSE Append(phaseLog, "PollKeyWatchers")
          /\ Behaviours' = res.Behaviours
          /\ selectedVao' = res.selectedVao
          /\ ortho' = res.ortho
          /\ lastToggle' = res.lastToggle
          /\ everOn' = res.everOn
          /\ everOff' = res.everOff
          /\ selKeys' = res.selKeys
          /\ oobUse' = res.oobUse
          /\ everToggled' = res.everToggled
  /\ pc' = "behaviours"
  /\ UNCHANGED <<guiVars, fpsVars, group, Material, RenderLayer, Shader,
                 matAddr, shAddr, stale, startVars, passVars, drawVars>>

\* UpdateBehaviours followed directly by the sort: the world matrix pass is lost
UpdateBehaviours_skipsWorld ==
  /\ pc = "behaviours"
  /\ seenEnabled' = [e \in Entities |->
                       [i \in DOMAIN Behaviours[e] |-> Behaviours[e][i].Enabled]]
  /\ updCount' = [e \in Entities |->
                    [i \in DOMAIN Behaviours[e] |->
                       IF Behaviours[e][i].Enabled THEN updCount[e][i] + 1
                       ELSE updCount[e][i]]]
  /\ stale' = [e \in Entities |->
                 stale[e] \/ \E i \in DOMAIN Behaviours[e] : Behaviours[e][i].Enabled]
  /\ phaseLog' = Append(phaseLog, "UpdateBehaviours")
  /\ pc' = "sort"
  /\ UNCHANGED <<selKeys, selVars, guiVars, fpsVars, group, Material,
                 RenderLayer, Shader, matAddr, shAddr, Behaviours,
                 selectedVao, ortho, startVars, inputVars, wmCount, drawVars>>

\* UpdateBehaviours without the test of Enabled
UpdateBehaviours_ignoresEnabled ==
  /\ pc = "behaviours"
  /\ seenEnabled' = [e \in Entities |->
                       [i \in DOMAIN Behaviours[e] |-> Behaviours[e][i].Enabled]]
  /\ updCount' = [e \in Entities |->
                    [i \in DOMAIN Behaviours[e] |-> updCount[e][i] + 1]]
  /\ stale' = [e \in Entities |-> stale[e] \/ Behaviours[e] # <<>>]
  /\ phaseLog' = Append(phaseLog, "UpdateBehaviours")
  /\ pc' = "world"
  /\ UNCHANGED <<selKeys, selVars, guiVars, fpsVars, group, Material,
                 RenderLayer, Shader, matAddr, shAddr, Behaviours,
                 selectedVao, ortho, startVars, inputVars, wmCount, drawVars>>

\* view<BehaviourBinding>().each: every behaviour of every entity, Update
\* if Enabled; an Update moves the entity's Transform
UpdateBehaviours ==
  /\ pc = "behaviours"
  /\ seenEnabled' = [e \in Entities |->
                       [i \in DOMAIN Behaviours[e] |-> Behaviours[e][i].Enabled]]
  /\ updCount' = [e \in Entities |->
                    [i \in DOMAIN Behaviours[e] |->
                       IF Behaviours[e][i].Enabled THEN updCount[e][i] + 1
                       ELSE updCount[e][i]]]
  /\ stale' = [e \in Entities |->
                 stale[e] \/ \E i \in DOMAIN Behaviours[e] : Behaviours[e][i].Enabled]
  /\ phaseLog' = Append(phaseLog, "UpdateBehaviours")
  /\ pc' = "world"
  /\ UNCHANGED <<selKeys, selVars, guiVars, fpsVars, group, Material,
                 RenderLayer, Shader, matAddr, shAddr, Behaviours,
                 selectedVao, ortho, startVars, inputVars, wmCount, drawVars>>

\* UpdateWorldMatrices over the render group instead of every Transform
UpdateWorldMatrices_renderablesOnly ==
  /\ pc = "world"
  /\ wmCount' = [e \in Entities |->
                   IF e \in Range(group) THEN wmCount[e] + 1 ELSE wmCount[e]]
  /\ stale' = [e \in Entities |-> IF e \in Range(group) THEN FALSE ELSE stale[e]]
  /\ phaseLog' = Append(phaseLog, "UpdateWorldMatrices")
  /\ pc' = "sort"
  /\ UNCHANGED <<selKeys, selVars, guiVars, fpsVars, group, Material,
                 RenderLayer, Shader, matAddr, shAddr, Behaviours,
                 selectedVao, ortho, startVars, inputVars, seenEnabled,
                 updCount, drawVars>>

\* glClear ...; view<Transform>().each: t.UpdateWorldMatrix()
UpdateWorldMatrices ==
  /\ pc = "world"
  /\ wmCount' = [e \in Entities |-> wmCount[e] + 1]
  /\ stale' = [e \in Entities |-> FALSE]
  /\ phaseLog' = Append(phaseLog, "UpdateWorldMatrices")
  /\ pc' = "sort"
  /\ UNCHANGED <<selKeys, selVars, guiVars, fpsVars, group, Material,
                 RenderLayer, Shader, matAddr, shAddr, Behaviours,
                 selectedVao, ortho, startVars, inputVars, seenEnabled,
                 updCount, drawVars>>

\* Compare with the render layer test inverted: higher layers first
Compare_descLayer(l, r) ==
  IF RenderLayer[l] > RenderLayer[r] THEN TRUE
  ELSE IF RenderLayer[l] < RenderLayer[r] THEN FALSE
  ELSE IF shAddr[Shader[l]] < shAddr[Shader[r]] THEN TRUE
  ELSE IF shAddr[Shader[l]] > shAddr[Shader[r]] THEN FALSE
  ELSE IF matAddr[l] < matAddr[r] THEN TRUE
  ELSE IF matAddr[l] > matAddr[r] THEN FALSE
  ELSE FALSE

\* Compare that answers true for equal keys
Compare_lessEqual(l, r) ==
  IF RenderLayer[l] < RenderLayer[r] THEN TRUE
  ELSE IF RenderLayer[l] > RenderLayer[r] THEN FALSE
  ELSE IF shAddr[Shader[l]] < shAddr[Shader[r]] THEN TRUE
  ELSE IF shAddr[Shader[l]] > shAddr[Shader[r]] THEN FALSE
  ELSE IF matAddr[l] < matAddr[r] THEN TRUE
  ELSE IF matAddr[l] > matAddr[r] THEN FALSE
  ELSE TRUE

\* Compare without the material key
Compare_noMaterial(l, r) ==
  IF RenderLayer[l] < RenderLayer[r] THEN TRUE
  ELSE IF RenderLayer[l] > RenderLayer[r] THEN FALSE
  ELSE IF shAddr[Shader[l]] < shAddr[Shader[r]] THEN TRUE
  ELSE IF shAddr[Shader[l]] > shAddr[Shader[r]] THEN FALSE
  ELSE FALSE

\* Compare with the material test inverted
Compare_descMaterial(l, r) ==
  IF RenderLayer[l] < RenderLayer[r] THEN TRUE
  ELSE IF RenderLayer[l] > RenderLayer[r] THEN FALSE
  ELSE IF shAddr[Shader[l]] < shAddr[Shader[r]] THEN TRUE
  ELSE IF shAddr[Shader[l]] > shAddr[Shader[r]] THEN FALSE
  ELSE IF matAddr[l] > matAddr[r] THEN TRUE
  ELSE IF matAddr[l] < matAddr[r] THEN FALSE
  ELSE FALSE

\* Compare without the render layer key
Compare_noLayer(l, r) ==
  IF shAddr[Shader[l]] < shAddr[Shader[r]] THEN TRUE
  ELSE IF shAddr[Shader[l]] > shAddr[Shader[r]] THEN FALSE
  ELSE IF matAddr[l] < matAddr[r] THEN TRUE
  ELSE IF matAddr[l] > matAddr[r] THEN FALSE
  ELSE FALSE

\* the comparator handed to renderGroup.sort, on the materials of the two
\* RendererComponents; shared_ptr < compares the addresses held
Compare(l, r) ==
  IF RenderLayer[l] < RenderLayer[r] THEN TRUE
  ELSE IF RenderLayer[l] > RenderLayer[r] THEN FALSE
  ELSE IF shAddr[Shader[l]] < shAddr[Shader[r]] THEN TRUE
  ELSE IF shAddr[Shader[l]] > shAddr[Shader[r]] THEN FALSE
  ELSE IF matAddr[l] < matAddr[r] THEN TRUE
  ELSE IF matAddr[l] > matAddr[r] THEN FALSE
  ELSE FALSE

\* renderGroup.sort with the default algorithm (std::sort): any arrangement
\* of the entities in which no element precedes one that compares less than
\* it; the order of elements that compare equal is not determined.
RECURSIVE Arrangements(_)
Arrangements(S) ==
  IF S = {} THEN {<<>>}
  ELSE UNION { { <<e>> \o t : t \in Arrangements(S \ {e}) } :
               e \in { x \in S : \A y \in S : ~Compare(Material[y], Material[x]) } }

\* SortRenderGroup with current and currentMat kept from the frame before
SortRenderGroup_noReset ==
  /\ pc = "sort"
  /\ \E v \in ViewIds : view' = v
  /\ \E sorted \in Arrangements(Range(group)) : group' = sorted
  /\ drawIx' = 1
  /\ phaseLog' = Append(phaseLog, "SortAndDraw")
  /\ pc' = "draw"
  /\ UNCHANGED <<selKeys, selVars, guiVars, fpsVars, Material, RenderLayer,
                 Shader, matAddr, shAddr, Behaviours, stale, selectedVao,
                 ortho, startVars, inputVars, passVars, drawLog, applyLog,
                 bindLog, setupLog, boundShader, appliedMat, uView, current,
                 currentMat>>

\* camera matrices, renderGroup.sort, current = nullptr, currentMat = nullptr
SortRenderGroup ==
  /\ pc = "sort"
  /\ \E v \in ViewIds : view' = v
  /\ \E sorted \in Arrangements(Range(group)) : group' = sorted
  /\ current' = Null
  /\ currentMat' = Null
  /\ drawIx' = 1
  /\ phaseLog' = Append(phaseLog, "SortAndDraw")
  /\ pc' = "draw"
  /\ UNCHANGED <<selKeys, selVars, guiVars, fpsVars, Material, RenderLayer,
                 Shader, matAddr, shAddr, Behaviours, stale, selectedVao,
                 ortho, startVars, inputVars, passVars, drawLog, applyLog,
                 bindLog, setupLog, boundShader, appliedMat, uView>>

\* DrawRenderable that never records the shader it has set up
DrawRenderable_noTrack ==
  /\ pc = "draw"
  /\ drawIx <= Len(group)
  /\ LET e == group[drawIx]
         m == Material[e]
         s == Shader[m]
         layer == RenderLayer[m]
         shaderChanged == current # s
         materialChanged == currentMat # m
     IN /\ current' = current
        /\ bindLog' = IF shaderChanged
                        THEN bindLog \o << <<layer, s>>, <<layer, s>> >>
                        ELSE bindLog
        /\ setupLog' = IF shaderChanged THEN Append(setupLog, <<layer, s>>)
                       ELSE setupLog
        /\ boundShader' = IF shaderChanged THEN s ELSE boundShader
        /\ uView' = IF shaderChanged THEN [uView EXCEPT ![s] = view] ELSE uView
        /\ currentMat' = IF materialChanged THEN m ELSE currentMat
        /\ applyLog' = IF materialChanged THEN Append(applyLog, m) ELSE applyLog
        /\ appliedMat' = IF materialChanged THEN m ELSE appliedMat
        /\ drawLog' = Append(drawLog,
                        [entity |-> e, shader |-> s, bound |-> boundShader',
                         applied |-> appliedMat', uView |-> uView'[s],
                         setups |-> Range(setupLog'), stale |-> stale[e]])
  /\ drawIx' = drawIx + 1
  /\ UNCHANGED <<selKeys, selVars, guiVars, fpsVars, pc, phaseLog, sceneVars,
                 startVars, inputVars, passVars, view>>

\* one call of the lambda handed to renderGroup.each
DrawRenderable ==
  /\ pc = "draw"
  /\ drawIx <= Len(group)
  /\ LET e == group[drawIx]
         m == Material[e]
         s == Shader[m]
         layer == RenderLayer[m]
         shaderChanged == current # s
         materialChanged == currentMat # m
     IN /\ current' = IF shaderChanged THEN s ELSE current
        \* current->Bind(), then the Bind inside SetupShaderForFrame
        /\ bindLog' = IF shaderChanged
                        THEN bindLog \o << <<layer, s>>, <<layer, s>> >>
                        ELSE bindLog
        /\ setupLog' = IF shaderChanged THEN Append(setupLog, <<layer, s>>)
                       ELSE setupLog
        /\ boundShader' = IF shaderChanged THEN s ELSE boundShader
        /\ uView' = IF shaderChanged THEN [uView EXCEPT ![s] = view] ELSE uView
        /\ currentMat' = IF materialChanged THEN m ELSE currentMat
        /\ applyLog' = IF materialChanged THEN Append(applyLog, m) ELSE applyLog
        /\ appliedMat' = IF materialChanged THEN m ELSE appliedMat
        \* RenderVAO, with the state it runs in
        /\ drawLog' = Append(drawLog,
                        [entity |-> e, shader |-> s, bound |-> boundShader',
                         applied |-> appliedMat', uView |-> uView'[s],
                         setups |-> Range(setupLog'), stale |-> stale[e]])
  /\ drawIx' = drawIx + 1
  /\ UNCHANGED <<selKeys, selVars, guiVars, fpsVars, pc, phaseLog, sceneVars,
                 startVars, inputVars, passVars, view>>

\* a button that raises its own flag and leaves the other four alone
PressButton_keepsOthers(b, st) ==
  [st EXCEPT !.modeFlags[b] = 1,
             !.uniforms[b] = 1,
             !.lastButton = b]

\* if (ImGui::Button(...)) { shader->SetUniform("u_...", flag = v); x 5 }
PressButton(b, st) ==
  [st EXCEPT !.modeFlags = ButtonWrites[b],
             !.uniforms = ButtonWrites[b],
             !.lastButton = b]

\* the five buttons under the "Toggle buttons" header, in source order;
\* pressed is the set of buttons ImGui reports as clicked in this frame
RECURSIVE HandleButtons(_, _, _)
HandleButtons(b, pressed, st) ==
  IF b > Len(Buttons) THEN st
  ELSE HandleButtons(b + 1, pressed,
                     IF b \in pressed THEN PressButton(b, st) ELSE st)

\* ImGui::Checkbox("Relative Rotation", &behaviour->Relative) on the
\* behaviour of controllables[selectedVao]
RelativeCheckbox(ticked, st) ==
  IF ~InRange(selectedVao) THEN [st EXCEPT !.oobUse = TRUE]
  ELSE IF ticked THEN
    LET e == At(selectedVao)
        i == Get(st.Behaviours[e], "SimpleMoveBehaviour")
    IN [st EXCEPT !.Behaviours[e][i].Relative = ~@]
  ELSE st

\* the lambda pushed to imGuiCallbacks: the mode buttons when their header is
\* open, then the selected controllable's checkbox
imGuiCallback(header, pressed, ticked, st) ==
  RelativeCheckbox(ticked, IF header THEN HandleButtons(1, pressed, st) ELSE st)

\* RenderImGui(), once renderGroup.each has visited every renderable: the
\* callbacks run when ImGui::Begin("Debug") reports the window as open.
\* clickable bounds the input: the mode buttons the user may click.
RenderImGuiWith(clickable) ==
  /\ pc = "draw"
  /\ drawIx > Len(group)
  /\ \E open \in BOOLEAN, header \in BOOLEAN,
        pressed \in SUBSET clickable, ticked \in BOOLEAN :
       LET st == [modeFlags |-> modeFlags, uniforms |-> uniforms,
                  lastButton |-> lastButton, Behaviours |-> Behaviours,
                  oobUse |-> oobUse]
           res == IF open THEN imGuiCallback(header, pressed, ticked, st) ELSE st
       IN /\ modeFlags' = res.modeFlags
          /\ uniforms' = res.uniforms
          /\ lastButton' = res.lastButton
          /\ Behaviours' = res.Behaviours
          /\ oobUse' = res.oobUse
  /\ phaseLog' = Append(phaseLog, "RenderImGui")
  /\ pc' = "swap"
  /\ UNCHANGED <<selKeys, everToggled, fpsVars, group, Material, RenderLayer,
                 Shader, matAddr, shAddr, stale, selectedVao, ortho,
                 startVars, inputVars, passVars, drawVars>>

\* the GUI pass with every mode button within reach of the user
RenderImGui == RenderImGuiWith(1..Len(Buttons))

\* the GUI pass of a user who clicks no mode button
RenderImGuiNoClick == RenderImGuiWith({})

\* scene->Poll(); glfwSwapBuffers(window); time.LastFrame = ...
SwapBuffers ==
  /\ pc = "swap"
  /\ phaseLog' = Append(phaseLog, "SwapBuffers")
  /\ pc' = "loop"
  /\ UNCHANGED <<selKeys, selVars, guiVars, fpsVars, sceneVars, startVars,
                 inputVars, passVars, drawVars>>

\* ------------------------------------------------------------- shutdown
\* glfwWindowShouldClose(window) holds: leave the loop
WindowClose ==
  /\ pc = "loop"
  /\ pc' = "shutdown"
  /\ UNCHANGED <<selKeys, selVars, guiVars, fpsVars, phaseLog, sceneVars,
                 startVars, inputVars, passVars, drawVars>>

\* the shutdown path that goes on without releasing the scene
NullifyScene_skipped ==
  /\ pc = "shutdown"
  /\ pc' = "ShutdownImGui"
  /\ UNCHANGED <<selKeys, selVars, guiVars, fpsVars, phaseLog, sceneVars,
                 startVars, inputVars, passVars, drawVars>>

\* Application::Instance().ActiveScene = nullptr;
NullifyScene ==
  /\ pc = "shutdown"
  /\ released' = Append(released, "ActiveScene")
  /\ pc' = "ShutdownImGui"
  /\ UNCHANGED <<selKeys, selVars, guiVars, fpsVars, window, logged, exitCode,
                 assetsLoaded, failed, phaseLog, sceneVars, inputVars,
                 passVars, drawVars>>

\* ShutdownImGui();
ShutdownImGui ==
  /\ pc = "ShutdownImGui"
  /\ released' = Append(released, "ImGui")
  /\ pc' = "scopeEnd"
  /\ UNCHANGED <<selKeys, selVars, guiVars, fpsVars, window, logged, exitCode,
                 assetsLoaded, failed, phaseLog, sceneVars, inputVars,
                 passVars, drawVars>>

\* the closing brace of the scope that holds shaders, textures and the scene
LeaveScope ==
  /\ pc = "scopeEnd"
  /\ released' = Append(released, "scope")
  /\ pc' = "Uninitialize"
  /\ UNCHANGED <<selKeys, selVars, guiVars, fpsVars, window, logged, exitCode,
                 assetsLoaded, failed, phaseLog, sceneVars, inputVars,
                 passVars, drawVars>>

\* Logger::Uninitialize(); return 0;
UninitializeLogger ==
  /\ pc = "Uninitialize"
  /\ released' = Append(released, "Logger")
  /\ exitCode' = 0
  /\ pc' = "exit"
  /\ UNCHANGED <<selKeys, selVars, guiVars, fpsVars, window, logged,
                 assetsLoaded, failed, phaseLog, sceneVars, inputVars,
                 passVars, drawVars>>

Next ==
  \/ InitGLFW
  \/ InitGLAD
  \/ LoadScene
  \/ BeginFrame
  \/ PollKeyWatchers
  \/ UpdateBehaviours
  \/ UpdateWorldMatrices
  \/ SortRenderGroup
  \/ DrawRenderable
  \/ RenderImGuiNoClick
  \/ SwapBuffers
  \/ WindowClose
  \/ NullifyScene
  \/ ShutdownImGui
  \/ LeaveScope
  \/ UninitializeLogger

Spec == Init /\ [][Next]_vars

\* ------------------------------------------- the draw pass on any scene
\* The sort and the draw pass applied to an arbitrary small scene: every
\* assignment of materials to renderables and of layers and shaders to
\* materials.  Entities and materials are interchangeable, so the order of
\* the group before the first sort and the order of the addresses are fixed
\* without losing a case.
Layers == {DefaultRenderLayer, SkyboxRenderLayer}
AnyShaders == {shader, reflectiveShader}
FramePrefix == <<"PollEvents", "PollKeyWatchers", "UpdateBehaviours", "UpdateWorldMatrices">>

InitSort ==
  /\ pc = "sort"
  /\ window = 1
  /\ logged = {}
  /\ exitCode = -1
  /\ assetsLoaded = TRUE
  /\ failed = {}
  /\ released = <<>>
  /\ group = [i \in 1..NumAnyRend |-> i]
  /\ Material \in [1..NumAnyRend -> 1..NumAnyMats]
  /\ RenderLayer \in [1..NumAnyMats -> Layers]
  /\ Shader \in [1..NumAnyMats -> AnyShaders]
  /\ matAddr = Ascending(NumAnyMats)
  /\ shAddr = Ascending(NumShaders)
  /\ Behaviours = [e \in 1..NumAnyRend |-> <<>>]
  /\ stale = [e \in 1..NumAnyRend |-> FALSE]
  /\ selectedVao = 0
  /\ ortho = FALSE
  /\ focused = FALSE
  /\ phaseLog = FramePrefix
  /\ watcherPolls = Len(keyToggles)
  /\ lastToggle = [e \in 1..NumAnyRend |-> "none"]
  /\ everOn = {}
  /\ everOff = {}
  /\ seenEnabled = [e \in 1..NumAnyRend |-> <<>>]
  /\ updCount = [e \in 1..NumAnyRend |-> <<>>]
  /\ wmCount = [e \in 1..NumAnyRend |-> 1]
  /\ view = 1
  /\ current = Null
  /\ currentMat = Null
  /\ drawIx = 1
  /\ drawLog = <<>>
  /\ applyLog = <<>>
  /\ bindLog = <<>>
  /\ setupLog = <<>>
  /\ boundShader = Null
  /\ appliedMat = Null
  /\ uView = [s \in 1..NumShaders |-> 0]
  /\ selKeys = <<>>
  /\ oobUse = FALSE
  /\ everToggled = FALSE
  /\ modeFlags = NoMode
  /\ uniforms = NoMode
  /\ lastButton = 0
  /\ frameIx = 0
  /\ fpsBuffer = [i \in 0..(FpsBufferSize - 1) |-> Uninit]
  /\ framesRun = 0

\* the rest of the iteration and the start of the next one, up to the sort
NextDrawPass ==
  /\ pc = "draw"
  /\ drawIx > Len(group)
  /\ pc' = "sort"
  /\ drawLog' = <<>>
  /\ applyLog' = <<>>
  /\ bindLog' = <<>>
  /\ setupLog' = <<>>
  /\ phaseLog' = FramePrefix
  /\ UNCHANGED <<selKeys, selVars, guiVars, fpsVars, sceneVars, startVars,
                 inputVars, passVars, view, current, currentMat, drawIx,
                 boundShader, appliedMat, uView>>

NextSort ==
  \/ SortRenderGroup
  \/ DrawRenderable
  \/ NextDrawPass

SpecSort == InitSort /\ [][NextSort]_vars

\* the sort alone, applied once to each of these scenes
SpecCompare == InitSort /\ [][SortRenderGroup]_vars

\* ------------------------------------------- the GUI on the running loop
\* The game loop with every GUI input, started where LoadScene leaves the
\* program.  The behaviour, world matrix, sort and draw passes touch neither
\* the mode flags nor the selection, and are taken in one step; the layout of
\* the addresses plays no part and is fixed.
InitHud ==
  /\ pc = "loop"
  /\ window = 1
  /\ logged = {}
  /\ exitCode = -1
  /\ assetsLoaded = TRUE
  /\ failed = {}
  /\ released = <<>>
  /\ group = SceneRenderables
  /\ Material = SceneMaterial
  /\ RenderLayer = SceneRenderLayer
  /\ Shader = SceneShader
  /\ matAddr = Ascending(NumMaterials)
  /\ shAddr = Ascending(NumShaders)
  /\ Behaviours = SceneBehaviours
  /\ stale = [e \in SceneEntities |-> TRUE]
  /\ selectedVao = 0
  /\ ortho = FALSE
  /\ focused = FALSE
  /\ phaseLog = <<>>
  /\ watcherPolls = 0
  /\ lastToggle = [e \in SceneEntities |-> "none"]
  /\ everOn = {}
  /\ everOff = {}
  /\ seenEnabled = [e \in SceneEntities |-> [i \in DOMAIN SceneBehaviours[e] |-> FALSE]]
  /\ updCount = [e \in SceneEntities |-> [i \in DOMAIN SceneBehaviours[e] |-> 0]]
  /\ wmCount = [e \in SceneEntities |-> 0]
  /\ view = 1
  /\ current = Null
  /\ currentMat = Null
  /\ drawIx = 1
  /\ drawLog = <<>>
  /\ applyLog = <<>>
  /\ bindLog = <<>>
  /\ setupLog = <<>>
  /\ boundShader = Null
  /\ appliedMat = Null
  /\ uView = [s \in 1..NumShaders |-> 0]
  /\ selKeys = <<>>
  /\ oobUse = FALSE
  /\ everToggled = FALSE
  /\ modeFlags = NoMode
  /\ uniforms = NoMode
  /\ lastButton = 0
  /\ frameIx = 0
  /\ fpsBuffer = [i \in 0..(FpsBufferSize - 1) |-> Uninit]
  /\ framesRun = 0

\* the passes between the key watchers and the GUI, in one step
NextFrameBody ==
  /\ pc = "behaviours"
  /\ phaseLog' = phaseLog \o <<"UpdateBehaviours", "UpdateWorldMatrices", "SortAndDraw">>
  /\ drawIx' = Len(group) + 1
  /\ pc' = "draw"
  /\ UNCHANGED <<selKeys, selVars, guiVars, fpsVars, sceneVars, startVars,
                 inputVars, passVars, view, current, currentMat, drawLog,
                 applyLog, bindLog, setupLog, boundShader, appliedMat, uView>>

NextHud ==
  \/ BeginFrame
  \/ PollKeyWatchers
  \/ NextFrameBody
  \/ RenderImGui
  \/ SwapBuffers

SpecHud == InitHud /\ [][NextHud]_vars

\* ---------------------------------------------------------- properties
Count(seq, x) == Cardinality({i \in DOMAIN seq : seq[i] = x})
Pos(seq, x) == CHOOSE i \in DOMAIN seq : seq[i] = x
IsPrefix(a, b) == Len(a) <= Len(b) /\ \A i \in DOMAIN a : a[i] = b[i]
LayerOf(e) == RenderLayer[Material[e]]
ShaderOf(e) == Shader[Material[e]]
DrawPassDone == group # <<>> /\ Len(drawLog) = Len(group)
\* the renderables drawn so far, in draw order
Drawn == [i \in DOMAIN drawLog |-> drawLog[i].entity]

\* C1: in one frame, a renderable of a lower render layer is drawn before
\* every renderable of a higher render layer, i.e. the render layers of the
\* draw calls never decrease.
C1_LayersNeverDecrease ==
  \A i, j \in DOMAIN drawLog :
    LayerOf(Drawn[i]) < LayerOf(Drawn[j]) => i < j

C1_Witness ==
  /\ DrawPassDone
  /\ \E i, j \in DOMAIN drawLog : LayerOf(Drawn[i]) < LayerOf(Drawn[j])

\* C2: in one frame the renderables of one material are drawn one after
\* another, and when the draw pass is over Apply has been called exactly once
\* for every material that has a renderable (and for no other material).
C2_ApplyOncePerMaterial ==
  /\ \A i, j, k \in DOMAIN drawLog :
       (i < j /\ j < k /\ Material[Drawn[i]] = Material[Drawn[k]])
         => Material[Drawn[j]] = Material[Drawn[i]]
  /\ \A i \in DOMAIN applyLog : Count(applyLog, applyLog[i]) = 1
  /\ Range(applyLog) = {Material[Drawn[i]] : i \in DOMAIN drawLog}
  /\ DrawPassDone =>
       \A e \in Range(group) : Count(applyLog, Material[e]) = 1

C2_Witness ==
  /\ DrawPassDone
  /\ Len(applyLog) >= 2
  /\ \E a, b \in Range(group) : a # b /\ Material[a] = Material[b]

SamePairConsecutive ==
  \A i \in DOMAIN drawLog : \A k \in (i + 2)..Len(drawLog) :
    (/\ LayerOf(drawLog[i].entity) = LayerOf(drawLog[k].entity)
     /\ ShaderOf(drawLog[i].entity) = ShaderOf(drawLog[k].entity))
      => \A j \in (i + 1)..(k - 1) :
           /\ LayerOf(drawLog[j].entity) = LayerOf(drawLog[i].entity)
           /\ ShaderOf(drawLog[j].entity) = ShaderOf(drawLog[i].entity)

\* C3 as stated: renderables of one (render layer, shader) pair are drawn
\* one after another, and per frame Shader::Bind and SetupShaderForFrame are
\* each called at most once for a pair.
C3_Original ==
  /\ SamePairConsecutive
  /\ \A i \in DOMAIN setupLog : Count(setupLog, setupLog[i]) <= 1
  /\ \A i \in DOMAIN bindLog : Count(bindLog, bindLog[i]) <= 1

\* C3 amended: renderables of one (render layer, shader) pair are drawn one
\* after another; per frame SetupShaderForFrame is called at most once for a
\* pair, and Shader::Bind twice for each such call (once by the draw loop,
\* once inside SetupShaderForFrame), so at most twice for a pair.
C3_SetupOncePerLayerShader ==
  /\ SamePairConsecutive
  /\ \A i \in DOMAIN setupLog : Count(setupLog, setupLog[i]) <= 1
  /\ \A i \in DOMAIN bindLog :
       Count(bindLog, bindLog[i]) = 2 * Count(setupLog, bindLog[i])
  /\ Range(bindLog) = Range(setupLog)
  /\ Range(setupLog) \subseteq
       {<<LayerOf(Drawn[i]), ShaderOf(Drawn[i])>> : i \in DOMAIN drawLog}

C3_Witness ==
  /\ DrawPassDone
  /\ Len(setupLog) >= 2
  /\ Len(applyLog) > Len(setupLog)

SortStep == pc = "sort" /\ pc' = "draw"
EqualKeys(a, b) ==
  /\ LayerOf(a) = LayerOf(b)
  /\ ShaderOf(a) = ShaderOf(b)
  /\ Material[a] = Material[b]

\* C4 as stated: the sort is stable, i.e. two renderables equal on all three
\* keys are after the sort in the order they had before it.
C4_Original ==
  [][SortStep =>
       \A a, b \in Range(group) :
         (EqualKeys(a, b) /\ Pos(group, a) < Pos(group, b))
           => Pos(group', a) < Pos(group', b)]_vars

\* the keys of a before those of b, or the same keys
KeysInOrder(a, b) ==
  \/ LayerOf(a) < LayerOf(b)
  \/ /\ LayerOf(a) = LayerOf(b)
     /\ shAddr[ShaderOf(a)] < shAddr[ShaderOf(b)]
  \/ /\ LayerOf(a) = LayerOf(b)
     /\ ShaderOf(a) = ShaderOf(b)
     /\ matAddr[Material[a]] <= matAddr[Material[b]]

\* C4 amended: the sort rearranges the render group (no renderable is lost
\* or duplicated) into ascending order of the three keys, so that the
\* renderables equal on all three keys are next to each other; the order
\* among them after the sort is not determined.
C4_SortGroupsEqualKeys ==
  [][SortStep =>
       /\ Len(group') = Len(group)
       /\ Range(group') = Range(group)
       /\ \A i, j \in DOMAIN group' : i < j => KeysInOrder(group'[i], group'[j])
       /\ \A i, j, k \in DOMAIN group' :
            (i < j /\ j < k /\ EqualKeys(group'[i], group'[k]))
              => EqualKeys(group'[i], group'[j])]_vars

\* a sort has put an equal pair in the opposite of creation order
C4_Witness ==
  /\ pc = "draw"
  /\ \E a, b \in Range(group) :
       a < b /\ EqualKeys(a, b) /\ Pos(group, b) < Pos(group, a)

FullFrame == FramePrefix \o <<"SortAndDraw", "RenderImGui", "SwapBuffers">>
\* the phases of a frame in which IsAnyWindowFocused returned f
Expected(f) ==
  IF f THEN SelectSeq(FullFrame, LAMBDA x : x # "PollKeyWatchers") ELSE FullFrame
FrameStart == pc = "loop" /\ pc' = "watchers"
Ran(phase) == phase \in Range(phaseLog)

\* C5 as stated: every frame runs, in this order and each exactly once:
\* poll of window events and of the key watchers, behaviour updates, world
\* matrices, sort and draw, GUI, buffer swap; a frame starts only when the
\* frame before has swapped buffers.
C5_Original ==
  [][/\ IsPrefix(phaseLog', FullFrame)
     /\ FrameStart => phaseLog \in {<<>>, FullFrame}
     /\ drawLog' # <<>> => "SortAndDraw" \in Range(phaseLog')
     /\ "RenderImGui" \in Range(phaseLog') => Len(drawLog') = Len(group')]_vars

\* C5 amended: the same order, where the key watchers are polled (each once)
\* only in a frame in which no ImGui window is focused and are skipped
\* otherwise; every other phase runs exactly once per frame; the draws lie
\* between the sort and the GUI; a frame starts only when the frame before
\* has swapped buffers.
C5_PhasesInOrder ==
  [][/\ IsPrefix(phaseLog', Expected(focused'))
     /\ FrameStart => phaseLog \in {<<>>, Expected(focused)}
     /\ watcherPolls' = IF "PollKeyWatchers" \in Range(phaseLog')
                          THEN Len(keyToggles) ELSE 0
     /\ drawLog' # <<>> => "SortAndDraw" \in Range(phaseLog')
     /\ "RenderImGui" \in Range(phaseLog') => Len(drawLog') = Len(group')]_vars

C5_Witness ==
  /\ pc = "loop"
  /\ focused
  /\ phaseLog = Expected(TRUE)
  /\ DrawPassDone

SimpleMove(e) == Get(Behaviours[e], "SimpleMoveBehaviour")
UpdatesMatchFlags ==
  \A e \in Entities : \A i \in DOMAIN Behaviours[e] :
    updCount[e][i] = IF Ran("UpdateBehaviours") /\ seenEnabled[e][i]
                       THEN 1 ELSE 0

\* C6 as stated: in a frame a behaviour is updated exactly once if it is
\* enabled when the behaviour pass reaches it and not at all otherwise; a
\* behaviour that a key toggle of the frame enabled is updated in that frame,
\* one that a key toggle of the frame disabled is not.
C6_Original ==
  /\ UpdatesMatchFlags
  /\ Ran("UpdateBehaviours") =>
       /\ \A e \in everOn : updCount[e][SimpleMove(e)] = 1
       /\ \A e \in everOff : updCount[e][SimpleMove(e)] = 0

\* C6 amended: in a frame a behaviour is updated exactly once if it is
\* enabled when the behaviour pass reaches it and not at all otherwise; of the
\* key toggles of a frame the last one to write a behaviour's flag decides:
\* a behaviour it enabled is updated in that frame, one it disabled is not.
C6_UpdateOnceIfEnabled ==
  /\ UpdatesMatchFlags
  /\ Ran("UpdateBehaviours") =>
       \A e \in Entities :
         /\ lastToggle[e] = "on" => updCount[e][SimpleMove(e)] = 1
         /\ lastToggle[e] = "off" => updCount[e][SimpleMove(e)] = 0

\* two toggles fired in one frame: one behaviour was enabled and disabled
\* again, the other disabled and enabled again
C6_Witness ==
  /\ Ran("UpdateBehaviours")
  /\ \E a, b \in everOn \cap everOff :
       /\ lastToggle[a] = "off"
       /\ lastToggle[b] = "on"
       /\ updCount[b][SimpleMove(b)] = 1

\* C7: in a frame UpdateWorldMatrix is called exactly once on every
\* Transform, after the behaviour updates and before the first draw call, and
\* no renderable is drawn while its Transform has changed since its world
\* matrix was computed.
C7_WorldMatricesFresh ==
  /\ \A e \in Entities : wmCount[e] = IF Ran("UpdateWorldMatrices") THEN 1 ELSE 0
  /\ Ran("UpdateWorldMatrices") => Ran("UpdateBehaviours")
  /\ drawLog # <<>> => Ran("UpdateWorldMatrices")
  /\ \A i \in DOMAIN drawLog : ~drawLog[i].stale

C7_Witness ==
  /\ \E i \in DOMAIN drawLog :
       /\ Drawn[i] = objDunce
       /\ updCount[objDunce][1] = 1
  /\ wmCount[cameraObject] = 1

InLoop == pc \in {"loop", "watchers", "behaviours", "world", "sort", "draw", "swap",
                  "shutdown", "ShutdownImGui", "scopeEnd", "Uninitialize"}

\* C8: when glfwInit, glfwCreateWindow or the GL loader has failed, no asset
\* is loaded and the game loop is not entered, and the process ends with an
\* error logged and a non-zero status.
C8_InitFailureLoggedExit ==
  failed # {} =>
    /\ ~assetsLoaded
    /\ ~InLoop
    /\ pc # "setup"
    /\ exitCode # -1 => (exitCode # 0 /\ logged # {})

\* C9: the skybox is the last renderable drawn in every frame.
C9_SkyboxDrawnLast ==
  /\ \A i \in DOMAIN drawLog : Drawn[i] = skyboxObj => i = Len(group)
  /\ DrawPassDone => Drawn[Len(drawLog)] = skyboxObj

C9_Witness ==
  /\ pc = "swap"
  /\ Len(drawLog) = Len(SceneRenderables)
  /\ Drawn[Len(drawLog)] = skyboxObj
  /\ matAddr[skyboxMat] < matAddr[materialGround]

\* C10: at every RenderVAO call the bound shader is the shader of the
\* renderable's material, that shader's per-frame uniforms were set up in
\* this frame from this frame's view, and the applied material is the
\* renderable's material; the draw pass starts with no tracked shader and no
\* tracked material.
C10_DrawStateMatchesRenderable ==
  /\ \A i \in DOMAIN drawLog :
       LET d == drawLog[i] IN
         /\ d.shader = ShaderOf(d.entity)
         /\ d.bound = d.shader
         /\ \E x \in d.setups : x[2] = d.shader
         /\ d.uView = view
         /\ d.applied = Material[d.entity]
  /\ (pc = "draw" /\ drawIx = 1) => (current = Null /\ currentMat = Null)

\* the first draw of a later frame, under a view other than the one that a
\* shader not yet used in this frame still holds
C10_Witness ==
  /\ Len(drawLog) = 1
  /\ \E s \in DOMAIN uView : s # drawLog[1].shader /\ uView[s] \notin {0, view}
  /\ drawLog[1].uView = view
GuiStep == pc = "draw" /\ pc' = "swap"
\* the SimpleMoveBehaviour flags of every entity that has one
MoveFlags(behs) ==
  [e \in {x \in DOMAIN behs : \E i \in DOMAIN behs[x] :
                                 behs[x][i].kind = "SimpleMoveBehaviour"} |->
     LET b == behs[e][Get(behs[e], "SimpleMoveBehaviour")]
     IN <<b.Enabled, b.Relative>>]

\* C11: in a frame in which an ImGui window is focused no key watcher is
\* polled, and outside the GUI pass nothing in that frame changes the selected
\* index, the Enabled or Relative flag of a SimpleMoveBehaviour or the
\* camera's orthographic mode.
C11_FocusedFrameIgnoresKeys ==
  [][(focused' /\ ~GuiStep) =>
       /\ watcherPolls' = 0
       /\ "PollKeyWatchers" \notin Range(phaseLog')
       /\ selectedVao' = selectedVao
       /\ MoveFlags(Behaviours') = MoveFlags(Behaviours)
       /\ ortho' = ortho]_vars

\* a focused frame that has passed the key watcher poll, in a run where
\* toggles of earlier frames have changed the selection and the camera mode
C11_Witness ==
  /\ focused
  /\ pc = "behaviours"
  /\ selectedVao = 1
  /\ ortho
PollStep == pc = "watchers" /\ pc' = "behaviours"
Presses(keys, key) == Cardinality({i \in DOMAIN keys : keys[i] = key})

\* C12: KP_ADD moves the selected index from i to (i+1) mod n and KP_SUBTRACT
\* from i to (i-1+n) mod n, for every size n of controllables; the index
\* stays in 0..n-1, controllables is never indexed out of range by the
\* toggles or the GUI callback, and KP_ADD followed by KP_SUBTRACT restores
\* the selection.
C12_SelectionWraps ==
  [][/\ \A n \in 1..MaxControllables : \A i \in 0..(n - 1) :
          /\ SelectNext(i, n) = (i + 1) % n
          /\ SelectPrev(i, n) = (i - 1 + n) % n
          /\ SelectPrev(SelectNext(i, n), n) = i
     /\ InRange(selectedVao')
     /\ ~oobUse'
     /\ PollStep =>
          LET n == Len(controllables) IN
          /\ selectedVao' = (selectedVao + Presses(selKeys', "KP_ADD") + n
                               - Presses(selKeys', "KP_SUBTRACT")) % n
          /\ (Presses(selKeys', "KP_ADD") = Presses(selKeys', "KP_SUBTRACT"))
               => selectedVao' = selectedVao
     /\ ~PollStep => selectedVao' = selectedVao]_vars

\* KP_ADD and then KP_SUBTRACT handled in one frame, on a selection that an
\* earlier frame had moved to the last controllable
C12_Witness ==
  /\ pc = "behaviours"
  /\ selKeys = <<"KP_ADD", "KP_SUBTRACT">>
  /\ selectedVao = Len(controllables) - 1
  /\ ~oobUse
\* positions in controllables whose SimpleMoveBehaviour is enabled
EnabledControllables ==
  {i \in 0..(Len(controllables) - 1) :
     Behaviours[At(i)][SimpleMove(At(i))].Enabled}

\* C13: from the end of the set-up on, at most one controllable has its
\* SimpleMoveBehaviour enabled and it is the selected one; none is enabled and
\* the selection is 0 until the first KP_ADD or KP_SUBTRACT toggle, and from
\* then on exactly the selected controllable is enabled.
C13_OnlySelectedEnabled ==
  assetsLoaded =>
    /\ Cardinality(EnabledControllables) <= 1
    /\ EnabledControllables \subseteq {selectedVao}
    /\ everToggled => EnabledControllables = {selectedVao}
    /\ ~everToggled => (EnabledControllables = {} /\ selectedVao = 0)

\* the draw pass of a frame after toggles moved the selection to the second
\* controllable and, in this frame, back to the first
C13_Witness ==
  /\ pc = "draw"
  /\ everToggled
  /\ Len(selKeys) > 0
  /\ "KP_ADD" \in Range(selKeys)
  /\ selectedVao = 0
  /\ EnabledControllables = {0}
\* the mode flags that are 1
RaisedFlags == {i \in DOMAIN modeFlags : modeFlags[i] = 1}

\* C14: the five lighting-mode flags are 0 or 1 and at most one of them is 1:
\* none before the first mode button is handled, and afterwards exactly the
\* flag of the button handled last; each u_* uniform holds the value of its
\* flag.
C14_ModeFlagsExclusive ==
  assetsLoaded =>
    /\ DOMAIN modeFlags = DOMAIN ModeFlags
    /\ \A i \in DOMAIN modeFlags : modeFlags[i] \in {0, 1}
    /\ Cardinality(RaisedFlags) <= 1
    /\ lastButton = 0 => RaisedFlags = {}
    /\ lastButton # 0 => RaisedFlags = {lastButton}
    /\ \A i \in DOMAIN ModeUniforms : uniforms[i] = modeFlags[i]

\* the last button has been handled in a frame, so every earlier button the
\* user clicked has lost its flag
C14_Witness ==
  /\ pc = "swap"
  /\ lastButton = Len(Buttons)
  /\ RaisedFlags = {Len(Buttons)}
  /\ uniforms = ButtonWrites[Len(Buttons)]

\* C15: the FPS history is a ring of FpsBufferSize slots: every iteration
\* writes one sample at frameIx, which is in 0..FpsBufferSize-1, and moves
\* frameIx to (frameIx+1) mod FpsBufferSize; after the set-up nothing else
\* writes the ring, and once FpsBufferSize iterations have run the slots hold
\* the samples of the last FpsBufferSize frames, one each.
C15_FpsRing ==
  [][/\ frameIx \in 0..(FpsBufferSize - 1)
     /\ (assetsLoaded /\ ~FrameStart) => UNCHANGED fpsVars
     /\ FrameStart =>
          /\ fpsBuffer'[frameIx] = 0
          /\ \A i \in DOMAIN fpsBuffer \ {frameIx} : fpsBuffer'[i] = Older(fpsBuffer[i])
          /\ frameIx' = (frameIx + 1) % FpsBufferSize
     /\ framesRun' >= FpsBufferSize =>
          {fpsBuffer'[i] : i \in DOMAIN fpsBuffer'} = 0..(FpsBufferSize - 1)]_vars

\* the ring is full and the write to its last slot has wrapped the index
C15_Witness ==
  /\ pc = "watchers"
  /\ framesRun >= FpsBufferSize
  /\ frameIx = 0
  /\ fpsBuffer[FpsBufferSize - 1] = 0
  /\ \A i \in DOMAIN fpsBuffer : fpsBuffer[i] # Uninit
ReleaseOrder == <<"ActiveScene", "ImGui", "scope", "Logger">>
ShuttingDown == pc \in {"shutdown", "ShutdownImGui", "scopeEnd", "Uninitialize"}
frameVars == <<phaseLog, sceneVars, inputVars, passVars, drawVars, selKeys,
               selVars, guiVars, fpsVars>>

\* C16: the loop is left only from the start of an iteration, when the window
\* should close; from there the program releases ActiveScene, ImGui, the scope
\* of shaders, textures and scene and the logger, one per step and in this
\* order, and returns 0; once the loop is left no frame phase runs and nothing
\* a frame phase writes changes.
C16_ShutdownOrder ==
  [][/\ pc' = "shutdown" => pc \in {"loop", "shutdown"}
     /\ IsPrefix(released', ReleaseOrder)
     /\ Len(released') \in {Len(released), Len(released) + 1}
     /\ released' # <<>> => (ShuttingDown' \/ pc' = "exit")
     /\ ShuttingDown => (UNCHANGED frameVars /\ (ShuttingDown' \/ pc' = "exit"))
     /\ (ShuttingDown /\ pc' = "exit") => (released' = ReleaseOrder /\ exitCode' = 0)
     /\ exitCode' = 0 => released' = ReleaseOrder]_vars

\* the process has returned 0 after a run of the loop in which at least one
\* whole frame was rendered
C16_Witness ==
  /\ pc = "exit"
  /\ exitCode = 0
  /\ released = ReleaseOrder
  /\ Ran("SwapBuffers")
\* the comparator on two renderables
Less(a, b) == Compare(Material[a], Material[b])
Equivalent(a, b) == ~Less(a, b) /\ ~Less(b, a)
\* the key of a renderable and the lexicographic order of keys
Key(a) == <<RenderLayer[Material[a]], shAddr[Shader[Material[a]]], matAddr[Material[a]]>>
LexLess(k, m) ==
  \/ k[1] < m[1]
  \/ k[1] = m[1] /\ k[2] < m[2]
  \/ k[1] = m[1] /\ k[2] = m[2] /\ k[3] < m[3]

\* C17: on the renderables of a group about to be sorted, the sort's
\* comparator is the lexicographic order of the keys (RenderLayer, shader
\* address, material address): it is irreflexive, asymmetric and transitive,
\* its equivalence is transitive, and two renderables are equivalent exactly
\* when they have the same material.
C17_StrictWeakOrdering ==
  pc = "sort" =>
    \A a \in Range(group) :
      /\ ~Less(a, a)
      /\ \A b \in Range(group) :
           /\ Less(a, b) <=> LexLess(Key(a), Key(b))
           /\ Less(a, b) => ~Less(b, a)
           /\ Equivalent(a, b) <=> Material[a] = Material[b]
           /\ \A c \in Range(group) :
                /\ (Less(a, b) /\ Less(b, c)) => Less(a, c)
                /\ (Equivalent(a, b) /\ Equivalent(b, c)) => Equivalent(a, c)

\* the sort has run on a group where two renderables share a material and a
\* third differs from them in the material alone
C17_Witness ==
  /\ pc = "draw"
  /\ \E a, b, c \in Range(group) :
       /\ a # b
       /\ Material[a] = Material[b]
       /\ Material[c] # Material[a]
       /\ RenderLayer[Material[c]] = RenderLayer[Material[a]]
       /\ Shader[Material[c]] = Shader[Material[a]]
       /\ Less(a, c) \/ Less(c, a)
       /\ Equivalent(a, b)
====
